---- MODULE Spec2Model ----
(***************************************************************************)
(* Model of two helpers of freelan:                                        *)
(*   - pyfreelan/api/log.py: log() and log_attach(), the bridge to the     *)
(*     native logging sink;                                                *)
(*   - freelan/ntenvironment.py: EnvironmentHelper, the NT build           *)
(*     environment helper (constructor, update_environment_from_library,   *)
(*     build_library).                                                     *)
(* A Python value is a record [kind, data]: kind is the Python type and    *)
(* data a sequence of integers (bytes of a str, code points of a unicode,  *)
(* the number of an int/bool/long, numerator and denominator of a float,   *)
(* the items of a list, the (key, value) pairs of a dict in iteration      *)
(* order).  A flag list is a sequence of strings.                          *)
(***************************************************************************)
EXTENDS Integers, Sequences, FiniteSets, TLC

VARIABLES
    pc,               \* log.py: "call" before the requested call, "done" after it, "idle" when unused
    request,          \* log.py: the call being made and its arguments
    outcome,          \* log.py: native calls made, value returned or exception raised
    stage,            \* ntenvironment.py: "base" after BaseEnvironmentHelper.__init__,
                      \* "ready" after EnvironmentHelper.__init__, "done" after the method call
    toolset,          \* self.toolset
    target_arch,      \* self.get_architecture()
    host_arch,        \* self.get_architecture(platform.machine())
    environment,      \* self.environment: flag category -> list of flags
    arguments,        \* self.arguments
    base_environment, \* self.environment as the base class left it
    pending,          \* the method call made on the helper and its arguments
    returned          \* what that method call returned / the env it updated

vars == <<pc, request, outcome, stage, toolset, target_arch, host_arch,
          environment, arguments, base_environment, pending, returned>>

log_vars == <<pc, request, outcome>>
env_vars == <<stage, toolset, target_arch, host_arch, environment, arguments,
              base_environment, pending, returned>>

\* ------------------------------------------------------------------ bounds
\* Largest number of pairs of a payload dictionary.
MaxPayload == 3
\* Largest number of libraries handed to build_library.
MaxLibs == 2

\* ------------------------------------------------------- Python values
PyVal(kind, data) == [kind |-> kind, data |-> data]

PyNone == PyVal("NoneType", <<>>)

\* ffi.NULL, a cdata null pointer: falsy in Python.
FFI_NULL == PyVal("cdata_null", <<>>)

\* isinstance(v, cls) of Python 2: bool is a subclass of int; long, str and
\* unicode are classes of their own.
isinstance(v, cls) ==
    \/ v.kind = cls
    \/ cls = "int" /\ v.kind = "bool"

\* Truth value of a Python object: None, ffi.NULL, empty strings, empty
\* containers and zero numbers are falsy.
Truthy(v) ==
    CASE v.kind \in {"NoneType", "cdata_null"} -> FALSE
      [] v.kind \in {"str", "unicode", "list", "dict"} -> v.data # <<>>
      [] v.kind \in {"bool", "int", "long", "float"} -> v.data[1] # 0
      [] OTHER -> TRUE

\* UTF-8 encoding of one code point below 2^16.
Utf8CodePoint(cp) ==
    IF cp < 128 THEN <<cp>>
    ELSE IF cp < 2048 THEN <<192 + (cp \div 64), 128 + (cp % 64)>>
    ELSE <<224 + (cp \div 4096), 128 + ((cp \div 64) % 64), 128 + (cp % 64)>>

RECURSIVE Utf8Bytes(_)
Utf8Bytes(cps) ==
    IF cps = <<>> THEN <<>>
    ELSE Utf8CodePoint(Head(cps)) \o Utf8Bytes(Tail(cps))

\* unicode.encode('utf-8'): the str holding the UTF-8 bytes.
encode_utf8(u) == PyVal("str", Utf8Bytes(u.data))

\* ------------------------------------------------------- native sink calls
AttachCall(fn, entry, key, value) ==
    [fn |-> fn, entry |-> entry, key |-> key.data, value |-> value]

LogCall(level, timestamp, domain, code, count, attachments, file, line, result) ==
    [fn |-> "freelan_log", level |-> level, timestamp |-> timestamp,
     domain |-> domain, code |-> code, count |-> count,
     attachments |-> attachments, file |-> file, line |-> line,
     result |-> result]

StartCall(level, timestamp, domain, code, file, line, entry) ==
    [fn |-> "freelan_log_start", level |-> level, timestamp |-> timestamp,
     domain |-> domain, code |-> code, file |-> file, line |-> line,
     entry |-> entry]

CompleteCall(entry, result) ==
    [fn |-> "freelan_log_complete", entry |-> entry, result |-> result]

AttachFns == {"freelan_log_attach_string", "freelan_log_attach_boolean",
              "freelan_log_attach_integer", "freelan_log_attach_float"}

\* Outcome of a Python call: the native calls it made, and either a
\* returned value or a raised exception.
Returned(calls, value) == [calls |-> calls, raised |-> "", value |-> value]
Raised(calls, exc) == [calls |-> calls, raised |-> exc, value |-> "None"]

PyBool(b) == IF b THEN "True" ELSE "False"

\* ------------------------------------------------------------ log_attach
\* The isinstance chain of log_attach with the int test before the bool
\* test (a bool is an int, so it would be attached as an integer).
attach_dispatch_int_first(entry, key, value) ==
    IF isinstance(value, "str")
    THEN Returned(<<AttachCall("freelan_log_attach_string", entry, key, value)>>, "None")
    ELSE IF isinstance(value, "int")
    THEN Returned(<<AttachCall("freelan_log_attach_integer", entry, key, value)>>, "None")
    ELSE IF isinstance(value, "bool")
    THEN Returned(<<AttachCall("freelan_log_attach_boolean", entry, key, value)>>, "None")
    ELSE IF isinstance(value, "float")
    THEN Returned(<<AttachCall("freelan_log_attach_float", entry, key, value)>>, "None")
    ELSE Raised(<<>>, "TypeError")

\* log.py 65-74: the dispatch on the (already encoded) value.
attach_dispatch(entry, key, value) ==
    IF isinstance(value, "str")
    THEN Returned(<<AttachCall("freelan_log_attach_string", entry, key, value)>>, "None")
    ELSE IF isinstance(value, "bool")
    THEN Returned(<<AttachCall("freelan_log_attach_boolean", entry, key, value)>>, "None")
    ELSE IF isinstance(value, "int")
    THEN Returned(<<AttachCall("freelan_log_attach_integer", entry, key, value)>>, "None")
    ELSE IF isinstance(value, "float")
    THEN Returned(<<AttachCall("freelan_log_attach_float", entry, key, value)>>, "None")
    ELSE Raised(<<>>, "TypeError")

\* log.py 46-74.
log_attach(entry, key, value) ==
    LET key1 == IF isinstance(key, "unicode") THEN encode_utf8(key) ELSE key
    IN  IF ~isinstance(key1, "str")
        THEN Raised(<<>>, "TypeError")
        ELSE LET value1 == IF isinstance(value, "unicode")
                           THEN encode_utf8(value) ELSE value
             IN  attach_dispatch(entry, key1, value1)

\* ------------------------------------------------------------------- log
\* The loop walking the payload from its last pair to its first.
RECURSIVE attach_all_reversed(_, _)
attach_all_reversed(entry, items) ==
    IF items = <<>> THEN Returned(<<>>, "None")
    ELSE LET r == log_attach(entry, items[Len(items)][1], items[Len(items)][2])
         IN  IF r.raised # "" THEN r
             ELSE LET rest == attach_all_reversed(entry, SubSeq(items, 1, Len(items) - 1))
                  IN  [rest EXCEPT !.calls = r.calls \o rest.calls]

\* log.py 122-123: for key, value in payload.iteritems(): log_attach(...).
\* The first pair whose log_attach raises ends the loop.
RECURSIVE attach_all(_, _)
attach_all(entry, items) ==
    IF items = <<>> THEN Returned(<<>>, "None")
    ELSE LET r == log_attach(entry, items[1][1], items[1][2])
         IN  IF r.raised # "" THEN r
             ELSE LET rest == attach_all(entry, Tail(items))
                  IN  [rest EXCEPT !.calls = r.calls \o rest.calls]

\* try/finally whose finally clause only completes the entry and lets the
\* exception of the body go on to the caller.
try_finally_propagating(body, entry, result) ==
    LET calls == body.calls \o <<CompleteCall(entry, result)>>
    IN  IF body.raised # "" THEN Raised(calls, body.raised)
        ELSE Returned(calls, PyBool(result # 0))

\* log.py 121-125: the return statement inside finally discards an
\* exception raised by the body of the try.
try_finally(body, entry, result) ==
    Returned(body.calls \o <<CompleteCall(entry, result)>>, PyBool(result # 0))

\* The file/line normalisation that keeps the caller's line.
normalise_location_keep_line(file, line) ==
    IF file = PyNone THEN [file |-> FFI_NULL, line |-> line]
    ELSE [file |-> file, line |-> line]

\* log.py 96-98.
normalise_location(file, line) ==
    IF file = PyNone THEN [file |-> FFI_NULL, line |-> 0]
    ELSE [file |-> file, line |-> line]

\* The payload test written as "payload is None".
no_payload_is_none(payload) == payload = PyNone

\* log.py 100: not payload.
no_payload(payload) == ~Truthy(payload)

\* log.py 77-125.  entry is the handle freelan_log_start returns, result
\* the integer freelan_log or freelan_log_complete returns.
log(level, timestamp, domain, code, payload, file, line, entry, result) ==
    LET loc == normalise_location(file, line)
    IN  IF no_payload(payload)
        THEN Returned(<<LogCall(level, timestamp, domain, code, 0, FFI_NULL,
                                loc.file, loc.line, result)>>,
                      PyBool(result # 0))
        ELSE LET start == StartCall(level, timestamp, domain, code,
                                    IF ~Truthy(loc.file) THEN FFI_NULL ELSE loc.file,
                                    IF Truthy(loc.file) THEN loc.line ELSE 0,
                                    entry)
                 body == attach_all(entry, payload.data)
             IN  [try_finally(body, entry, result)
                    EXCEPT !.calls = <<start>> \o @]

\* ----------------------------------------------------- inputs of log.py
Keys == {PyVal("str", <<107>>), PyVal("unicode", <<233>>), PyVal("int", <<7>>)}

Values == {PyVal("str", <<118>>), PyVal("unicode", <<8364>>),
           PyVal("bool", <<1>>), PyVal("int", <<42>>), PyVal("long", <<42>>),
           PyVal("float", <<314, 100>>), PyVal("list", <<1, 2>>), PyNone}

\* The items of a dict, in its iteration order: the keys are distinct.
ItemSeqs(n) ==
    {items \in UNION {[1..k -> Keys \X Values] : k \in 0..n} :
        \A i, j \in DOMAIN items : i # j => items[i][1] # items[j][1]}

Payloads == {PyNone} \cup {PyVal("dict", items) : items \in ItemSeqs(MaxPayload)}

Files == {PyNone, PyVal("str", <<>>), PyVal("str", <<97, 46, 99>>)}

Lines == {0, 7}

Levels == {"fatal", "error"}

Entries == {"entry1", "entry2"}

SinkResults == {-1, 0, 1}

LogRequests ==
    [name : {"log"}, level : Levels, timestamp : {1000}, domain : {"generic"},
     code : {42}, payload : Payloads, file : Files, line : Lines]

AttachRequests ==
    [name : {"log_attach"}, entry : Entries, key : Keys, value : Values]

NoOutcome == Returned(<<>>, "None")

LogInit ==
    /\ pc = "call"
    /\ request \in LogRequests \cup AttachRequests
    /\ outcome = NoOutcome

LogIdle ==
    /\ pc = "idle"
    /\ request = [name |-> "none"]
    /\ outcome = NoOutcome

\* A call of log(): the sink picks the entry handle and the result.
Log ==
    /\ pc = "call"
    /\ request.name = "log"
    /\ \E entry \in Entries, r \in SinkResults :
          outcome' = log(request.level, request.timestamp, request.domain,
                         request.code, request.payload, request.file,
                         request.line, entry, r)
    /\ pc' = "done"
    /\ UNCHANGED <<request, env_vars>>

\* A direct call of log_attach().
LogAttach ==
    /\ pc = "call"
    /\ request.name = "log_attach"
    /\ outcome' = log_attach(request.entry, request.key, request.value)
    /\ pc' = "done"
    /\ UNCHANGED <<request, env_vars>>

\* ------------------------------------------------ ntenvironment.py helpers
\* str.startswith.
startswith(s, prefix) ==
    /\ Len(s) >= Len(prefix)
    /\ SubSeq(s, 1, Len(prefix)) = prefix

\* os.path.join of the NT path module, for relative components.
path_join(a, b) == a \o "\\" \o b

\* dict.setdefault(key, []).append(item).
setdefault_append(env, key, item) ==
    IF key \in DOMAIN env
    THEN [env EXCEPT ![key] = Append(@, item)]
    ELSE env @@ (key :> <<item>>)

\* dict.setdefault(key, value) on the arguments.
setdefault(args, key, value) ==
    IF key \in DOMAIN args THEN args ELSE args @@ (key :> value)

\* list.append on a flag list of the SCons environment.
env_append(env, key, item) == [env EXCEPT ![key] = Append(@, item)]

\* tools.unique: the items of a list in the order of their first
\* occurrence, each once.
RECURSIVE unique(_)
unique(items) ==
    IF items = <<>> THEN <<>>
    ELSE LET init == unique(SubSeq(items, 1, Len(items) - 1))
             last == items[Len(items)]
         IN  IF \E i \in DOMAIN init : init[i] = last THEN init
             ELSE Append(init, last)

\* The values self.get_architecture() can return.
Architectures == {"32", "64"}

WarningFlags ==
    <<"-Wall", "-Wextra", "-Werror", "-pedantic", "-Wshadow",
      "-Wno-long-long", "-Wno-uninitialized">>

ArchFlags == {"-m32", "-m64"}

\* The warning flags with -Werror and -pedantic exchanged.
append_warning_flags_reordered(env) ==
    [env EXCEPT !["CXXFLAGS"] =
        @ \o <<"-Wall", "-Wextra", "-pedantic", "-Werror", "-Wshadow",
               "-Wno-long-long", "-Wno-uninitialized">>]

\* ntenvironment.py 21-27.
append_warning_flags(env) ==
    [env EXCEPT !["CXXFLAGS"] = @ \o WarningFlags]

\* The architecture flag appended to the compile flags only.
append_arch_flags_compile_only(env, target, host) ==
    IF target # host
    THEN IF target = "32" THEN env_append(env, "CXXFLAGS", "-m32")
         ELSE IF target = "64" THEN env_append(env, "CXXFLAGS", "-m64")
         ELSE env
    ELSE env

\* ntenvironment.py 29-35.
append_arch_flags(env, target, host) ==
    IF target # host
    THEN IF target = "32"
         THEN env_append(env_append(env, "CXXFLAGS", "-m32"), "LINKFLAGS", "-m32")
         ELSE IF target = "64"
         THEN env_append(env_append(env, "CXXFLAGS", "-m64"), "LINKFLAGS", "-m64")
         ELSE env
    ELSE env

\* ntenvironment.py 39-42.
default_arguments(args) ==
    setdefault(setdefault(setdefault(setdefault(args,
        "openssl_path", "C:\\openssl"),
        "boost_path", "C:\\boost"),
        "boost_version", "1_47"),
        "boost_suffix", "mgw45-mt")

\* ntenvironment.py 15-42: EnvironmentHelper.__init__ after the base
\* class constructor.
EnvironmentHelper_init(ts, target, host, env, args) ==
    [environment |-> IF ts = "mingw"
                     THEN append_arch_flags(append_warning_flags(env), target, host)
                     ELSE env,
     arguments |-> default_arguments(args)]

\* The contribution of openssl_crypto without gdi32.
update_crypto_one_lib(env, library) ==
    IF library = "openssl_crypto"
    THEN setdefault_append(env, "LIBS", "crypto")
    ELSE env

\* ntenvironment.py 77-79.
update_crypto(env, library) ==
    IF library = "openssl_crypto"
    THEN setdefault_append(setdefault_append(env, "LIBS", "crypto"), "LIBS", "gdi32")
    ELSE env

\* ntenvironment.py 67-85.
update_environment_from_library(ts, args, env, library) ==
    LET e1 == IF startswith(library, "openssl_")
              THEN setdefault_append(
                       setdefault_append(env, "CPPPATH",
                                         path_join(args["openssl_path"], "include")),
                       "LIBPATH", path_join(args["openssl_path"], "lib"))
              ELSE env
        e2 == IF library = "openssl_ssl"
              THEN setdefault_append(e1, "LIBS", "ssl")
              ELSE e1
        e3 == update_crypto(e2, library)
    IN  IF startswith(library, "boost")
        THEN IF ts = "mingw"
             THEN setdefault_append(e3, "CXXFLAGS",
                      "-isystem" \o path_join(path_join(args["boost_path"], "include"),
                                              "boost-" \o args["boost_version"]))
             ELSE e3
        ELSE e3

\* ntenvironment.py 53-54.
RECURSIVE update_from_libraries(_, _, _, _)
update_from_libraries(ts, args, env, libraries) ==
    IF libraries = <<>> THEN env
    ELSE update_from_libraries(ts, args,
             update_environment_from_library(ts, args, env, Head(libraries)),
             Tail(libraries))

\* The merge putting the helper's flags before the local ones.
merge_category_env_first(self_env, env, key) ==
    unique(IF key \in DOMAIN self_env THEN self_env[key] \o env[key] ELSE env[key])

\* ntenvironment.py 57-61: one flag category of the local environment.
merge_category(self_env, env, key) ==
    unique(IF key \in DOMAIN self_env THEN env[key] \o self_env[key] ELSE env[key])

\* ntenvironment.py 44-65.  The value is the SharedLibrary call made on the
\* SCons environment, with self.environment as the call leaves it.
build_library(self_env, ts, args, target_dir, name, include_path, source_files, libraries) ==
    LET env0 == "CPPPATH" :> <<include_path>>
        env1 == update_from_libraries(ts, args, env0, libraries)
        env2 == [key \in DOMAIN env1 |-> merge_category(self_env, env1, key)]
    IN  [self_environment |-> self_env,
         shared_library |-> [target |-> path_join(target_dir, name),
                             source |-> source_files,
                             kwargs |-> env2]]

\* ---------------------------------------------- inputs of ntenvironment.py
Toolsets == {"mingw", "msvc"}

BaseEnvironments ==
    { [CXXFLAGS |-> <<>>, LINKFLAGS |-> <<>>],
      [CXXFLAGS |-> <<"-O2">>, LINKFLAGS |-> <<"-s">>,
       CPPPATH |-> <<"include", "C:\\openssl\\include">>,
       LIBS |-> <<"gdi32", "ssl">>],
      [CXXFLAGS |-> <<"-Wall", "-O2", "-Wall">>, LINKFLAGS |-> <<"-m32">>,
       CPPPATH |-> <<"include", "C:\\openssl\\include", "C:\\openssl\\include">>] }

BaseArguments ==
    { <<>>,
      [openssl_path |-> "D:\\ssl"],
      [boost_path |-> "D:\\boost", boost_version |-> "1_50"] }

LibraryNames ==
    {"openssl_ssl", "openssl_crypto", "openssl_rand", "openssl", "boost",
     "boost_system", "zlib"}

LocalEnvironments ==
    { <<>>,
      [CPPPATH |-> <<"include">>],
      [CPPPATH |-> <<"include">>, LIBS |-> <<"ssl">>, CXXFLAGS |-> <<"-g">>] }

LibrarySeqs(n) == UNION {[1..k -> LibraryNames] : k \in 0..n}

UpdateCalls ==
    [name : {"update_environment_from_library"}, env : LocalEnvironments,
     library : LibraryNames]

BuildCalls ==
    [name : {"build_library"}, target_dir : {"build"}, libname : {"freelan"},
     include_path : {"include"}, source_files : {<<"a.cpp">>},
     libraries : LibrarySeqs(MaxLibs)]

NoResult == [name |-> "none"]

EnvInit ==
    /\ stage = "base"
    /\ toolset \in Toolsets
    /\ target_arch \in Architectures
    /\ host_arch \in Architectures
    /\ environment \in BaseEnvironments
    /\ base_environment = environment
    /\ arguments \in BaseArguments
    /\ pending \in UpdateCalls \cup BuildCalls
    /\ returned = NoResult

EnvIdle ==
    /\ stage = "idle"
    /\ toolset = "none"
    /\ target_arch = "none"
    /\ host_arch = "none"
    /\ environment = <<>>
    /\ base_environment = <<>>
    /\ arguments = <<>>
    /\ pending = NoResult
    /\ returned = NoResult

\* EnvironmentHelper(arguments): the derived constructor runs on what the
\* base constructor built.
Construct ==
    /\ stage = "base"
    /\ LET self == EnvironmentHelper_init(toolset, target_arch, host_arch,
                                          environment, arguments)
       IN  /\ environment' = self.environment
           /\ arguments' = self.arguments
    /\ stage' = "ready"
    /\ UNCHANGED <<toolset, target_arch, host_arch, base_environment, pending,
                   returned, log_vars>>

\* helper.update_environment_from_library(env, library): env is updated
\* in place, returned holds it after the call.
UpdateEnvironmentFromLibrary ==
    /\ stage = "ready"
    /\ pending.name = "update_environment_from_library"
    /\ returned' = [name |-> pending.name,
                  env |-> update_environment_from_library(
                              toolset, arguments, pending.env, pending.library)]
    /\ stage' = "done"
    /\ UNCHANGED <<toolset, target_arch, host_arch, environment, arguments,
                   base_environment, pending, log_vars>>

\* helper.build_library(...).
BuildLibrary ==
    /\ stage = "ready"
    /\ pending.name = "build_library"
    /\ LET r == build_library(environment, toolset, arguments,
                              pending.target_dir, pending.libname,
                              pending.include_path, pending.source_files,
                              pending.libraries)
       IN  /\ returned' = [name |-> pending.name, shared_library |-> r.shared_library]
           /\ environment' = r.self_environment
    /\ stage' = "done"
    /\ UNCHANGED <<toolset, target_arch, host_arch, arguments,
                   base_environment, pending, log_vars>>

\* ---------------------------------------------------------- specifications
InitLog == LogInit /\ EnvIdle
NextLog == Log \/ LogAttach
SpecLog == InitLog /\ [][NextLog]_vars

InitEnv == EnvInit /\ LogIdle
NextEnv == Construct \/ UpdateEnvironmentFromLibrary \/ BuildLibrary
SpecEnv == InitEnv /\ [][NextEnv]_vars

\* ================================================================ claims
\* ------------------------------------------------ vocabulary of the claims
LogDone == pc = "done" /\ request.name = "log"

AttachDone == pc = "done" /\ request.name = "log_attach"

HasPayload == request.payload.kind = "dict" /\ request.payload.data # <<>>

ValidKey(k) == k.kind \in {"str", "unicode"}

ValidValue(v) == v.kind \in {"str", "unicode", "bool", "int", "float"}

ValidPair(p) == ValidKey(p[1]) /\ ValidValue(p[2])

\* The attach variant a value of each accepted kind must reach.
VariantOf(v) ==
    CASE v.kind \in {"str", "unicode"} -> "freelan_log_attach_string"
      [] v.kind = "bool" -> "freelan_log_attach_boolean"
      [] v.kind = "int" -> "freelan_log_attach_integer"
      [] v.kind = "float" -> "freelan_log_attach_float"
      [] OTHER -> "none"

\* UTF-8 bytes of the unicode texts of Keys and Values (U+00E9, U+20AC).
KnownUtf8 == (<<233>> :> <<195, 169>>) @@ (<<8364>> :> <<226, 130, 172>>)

BytesOf(v) == IF v.kind = "unicode" THEN KnownUtf8[v.data] ELSE v.data

\* Index of the first pair log_attach must reject, Len + 1 when none.
FirstInvalid(items) ==
    IF \A i \in DOMAIN items : ValidPair(items[i]) THEN Len(items) + 1
    ELSE CHOOSE i \in DOMAIN items :
            /\ ~ValidPair(items[i])
            /\ \A j \in 1..(i - 1) : ValidPair(items[j])

CountCalls(calls, fns) == Cardinality({i \in DOMAIN calls : calls[i].fn \in fns})

\* calls[j + 1] is the attach call log_attach makes for items[j].
AttachMatches(call, item, entry) ==
    /\ call.fn = VariantOf(item[2])
    /\ call.entry = entry
    /\ call.key = BytesOf(item[1])
    /\ call.value.data = BytesOf(item[2])

\* C1: a log() call whose payload holds an invalid key or value raises the
\* type violation to its caller instead of returning a boolean.
C1_InvalidPayloadRaises ==
    (LogDone /\ HasPayload
       /\ \E i \in DOMAIN request.payload.data : ~ValidPair(request.payload.data[i]))
    => /\ outcome.raised = "TypeError"
       /\ outcome.value \notin {"True", "False"}

\* C2: with a non-empty payload, log() calls freelan_log_start once, then
\* attaches the pairs before the first invalid one and none after it, then
\* calls freelan_log_complete once on the same entry, and returns
\* (result of complete != 0), also when an attachment failed.
C2_StartAttachComplete ==
    (LogDone /\ HasPayload) =>
        LET calls == outcome.calls
            items == request.payload.data
            i == FirstInvalid(items)
            n == Len(calls)
        IN  /\ n = i + 1
            /\ calls[1].fn = "freelan_log_start"
            /\ calls[n].fn = "freelan_log_complete"
            /\ calls[n].entry = calls[1].entry
            /\ CountCalls(calls, {"freelan_log_start"}) = 1
            /\ CountCalls(calls, {"freelan_log_complete"}) = 1
            /\ \A j \in 1..(i - 1) : AttachMatches(calls[j + 1], items[j], calls[1].entry)
            /\ outcome.raised = ""
            /\ outcome.value = PyBool(calls[n].result # 0)

\* C2 witness: the second of three pairs is invalid; the first was attached,
\* the third was not, and log() returned True.
C2_Witness ==
    /\ LogDone /\ HasPayload
    /\ Len(request.payload.data) = 3
    /\ FirstInvalid(request.payload.data) = 2
    /\ ValidPair(request.payload.data[3])
    /\ Len(outcome.calls) = 3
    /\ outcome.value = "True"

\* C3: with a non-empty payload of valid pairs only, the native calls are
\* one freelan_log_start, one typed attach per pair in iteration order, one
\* freelan_log_complete; freelan_log is never called and nothing is raised.
C3_ValidPayloadSequence ==
    (LogDone /\ HasPayload
       /\ \A i \in DOMAIN request.payload.data : ValidPair(request.payload.data[i]))
    => LET calls == outcome.calls
           items == request.payload.data
       IN  /\ Len(calls) = Len(items) + 2
           /\ calls[1].fn = "freelan_log_start"
           /\ \A j \in DOMAIN items :
                 AttachMatches(calls[j + 1], items[j], calls[1].entry)
           /\ calls[Len(calls)].fn = "freelan_log_complete"
           /\ CountCalls(calls, {"freelan_log"}) = 0
           /\ CountCalls(calls, AttachFns) = Len(items)
           /\ outcome.raised = ""

\* C3 witness: payload {"k": 3.14} gave start, one attach-float, complete.
C3_Witness ==
    /\ LogDone
    /\ request.payload = PyVal("dict", << <<PyVal("str", <<107>>), PyVal("float", <<314, 100>>)>> >>)
    /\ Len(outcome.calls) = 3
    /\ outcome.calls[2].fn = "freelan_log_attach_float"
    /\ outcome.calls[3].fn = "freelan_log_complete"

\* C4: without payload (None or an empty mapping) log() makes exactly one
\* native call, freelan_log with count 0 and a null attachment pointer, and
\* returns True exactly when its result is non-zero.
C4_SingleShot ==
    (LogDone /\ ~HasPayload) =>
        /\ Len(outcome.calls) = 1
        /\ outcome.calls[1].fn = "freelan_log"
        /\ outcome.calls[1].count = 0
        /\ outcome.calls[1].attachments = FFI_NULL
        /\ outcome.raised = ""
        /\ outcome.value = PyBool(outcome.calls[1].result # 0)

\* C4 witness: an empty mapping went through freelan_log and the sink
\* refused it.
C4_Witness ==
    /\ LogDone
    /\ request.payload = PyVal("dict", <<>>)
    /\ Len(outcome.calls) = 1
    /\ outcome.value = "False"

\* C5: log_attach either makes exactly one native attach call of the
\* variant of the value's kind (key a string, value a string, boolean,
\* integer or float), or raises TypeError before any native call.
C5_AttachOutcomes ==
    AttachDone =>
        IF ValidKey(request.key) /\ ValidValue(request.value)
        THEN /\ outcome.raised = ""
             /\ Len(outcome.calls) = 1
             /\ AttachMatches(outcome.calls[1], <<request.key, request.value>>,
                              request.entry)
        ELSE /\ outcome.raised = "TypeError"
             /\ outcome.calls = <<>>

\* C5 witness: a boolean was attached through attach_boolean.
C5_Witness ==
    /\ AttachDone
    /\ request.value.kind = "bool"
    /\ ValidKey(request.key)
    /\ Len(outcome.calls) = 1
    /\ outcome.calls[1].fn = "freelan_log_attach_boolean"

\* C6: with file=None the sink gets a null file and line 0 whatever line the
\* caller gave, on both paths; in every native call a null file implies
\* line 0.
C6_NullFileLineZero ==
    LogDone =>
        /\ request.file = PyNone =>
              /\ outcome.calls[1].fn \in {"freelan_log", "freelan_log_start"}
              /\ outcome.calls[1].file = FFI_NULL
              /\ outcome.calls[1].line = 0
        /\ \A i \in DOMAIN outcome.calls :
              (outcome.calls[i].fn \in {"freelan_log", "freelan_log_start"}
                 /\ outcome.calls[i].file = FFI_NULL)
              => outcome.calls[i].line = 0

\* C6 witness: log(..., file=None, line=7) without payload reached the sink.
C6_Witness ==
    /\ LogDone
    /\ request.file = PyNone
    /\ request.line = 7
    /\ outcome.calls[1].fn = "freelan_log"
    /\ outcome.calls[1].line = 0

\* The payload path under the same inputs: file=None, line=7 reached
\* freelan_log_start.
C6_WitnessPayload ==
    /\ LogDone
    /\ request.file = PyNone
    /\ request.line = 7
    /\ outcome.calls[1].fn = "freelan_log_start"

\* ------------------------------------- vocabulary of the build claims
Constructed == stage \in {"ready", "done"}

\* The flags the constructor appended to a category of self.environment.
Appended(key) ==
    SubSeq(environment[key], Len(base_environment[key]) + 1, Len(environment[key]))

KeepsBase(key) ==
    /\ Len(environment[key]) >= Len(base_environment[key])
    /\ SubSeq(environment[key], 1, Len(base_environment[key])) = base_environment[key]

CountIn(flags, wanted) == Cardinality({i \in DOMAIN flags : flags[i] \in wanted})

ArchFlagOf(arch) == IF arch = "32" THEN "-m32" ELSE "-m64"

\* No architecture flag appended when the architectures are equal, exactly
\* one, that of the target, appended to CXXFLAGS and LINKFLAGS otherwise.
ArchFlagsFollowArchitectures ==
    /\ KeepsBase("CXXFLAGS") /\ KeepsBase("LINKFLAGS")
    /\ IF target_arch = host_arch
       THEN /\ CountIn(Appended("CXXFLAGS"), ArchFlags) = 0
            /\ CountIn(Appended("LINKFLAGS"), ArchFlags) = 0
       ELSE /\ CountIn(Appended("CXXFLAGS"), ArchFlags) = 1
            /\ CountIn(Appended("CXXFLAGS"), {ArchFlagOf(target_arch)}) = 1
            /\ CountIn(Appended("LINKFLAGS"), ArchFlags) = 1
            /\ CountIn(Appended("LINKFLAGS"), {ArchFlagOf(target_arch)}) = 1

\* C7 as stated: for every toolset, equal architectures append no -m32/-m64
\* and unequal ones append exactly one to CXXFLAGS and to LINKFLAGS.
C7_ArchFlagsAnyToolset == Constructed => ArchFlagsFollowArchitectures

\* C7 amended: under toolset 'mingw' equal architectures append no
\* -m32/-m64 and unequal ones append exactly one, that of the requested
\* architecture, to CXXFLAGS and to LINKFLAGS; under any other toolset no
\* such flag is appended at all.
C7_ArchFlagsMingwOnly ==
    Constructed =>
        IF toolset = "mingw" THEN ArchFlagsFollowArchitectures
        ELSE /\ KeepsBase("CXXFLAGS") /\ KeepsBase("LINKFLAGS")
             /\ CountIn(Appended("CXXFLAGS"), ArchFlags) = 0
             /\ CountIn(Appended("LINKFLAGS"), ArchFlags) = 0

\* C7 witness: a mingw helper targeting 32 bits on a 64-bit host got -m32 on
\* both flag lists.
C7_Witness ==
    /\ stage = "ready"
    /\ toolset = "mingw"
    /\ target_arch = "32" /\ host_arch = "64"
    /\ environment["CXXFLAGS"][Len(environment["CXXFLAGS"])] = "-m32"
    /\ environment["LINKFLAGS"][Len(environment["LINKFLAGS"])] = "-m32"

\* C8: a toolset other than 'mingw' appends no warning flag to CXXFLAGS;
\* 'mingw' appends exactly -Wall -Wextra -Werror -pedantic -Wshadow
\* -Wno-long-long -Wno-uninitialized, in that order, after the pre-existing
\* flags.
C8_WarningFlags ==
    Constructed =>
        /\ KeepsBase("CXXFLAGS")
        /\ IF toolset = "mingw"
           THEN /\ Len(Appended("CXXFLAGS")) >= 7
                /\ SubSeq(Appended("CXXFLAGS"), 1, 7) =
                      <<"-Wall", "-Wextra", "-Werror", "-pedantic", "-Wshadow",
                        "-Wno-long-long", "-Wno-uninitialized">>
                /\ \A i \in DOMAIN Appended("CXXFLAGS") :
                      i > 7 => Appended("CXXFLAGS")[i] \in ArchFlags
           ELSE Appended("CXXFLAGS") = <<>>

\* C8 witness: a mingw helper built on pre-existing compile flags.
C8_Witness ==
    /\ stage = "ready"
    /\ toolset = "mingw"
    /\ base_environment["CXXFLAGS"] = <<"-O2">>
    /\ Len(environment["CXXFLAGS"]) >= 8

UpdateDone == stage = "done" /\ pending.name = "update_environment_from_library"

\* The flags the call appended to a category of the passed environment.
Added(key) ==
    IF key \notin DOMAIN returned.env THEN <<>>
    ELSE IF key \notin DOMAIN pending.env THEN returned.env[key]
    ELSE SubSeq(returned.env[key], Len(pending.env[key]) + 1, Len(returned.env[key]))

\* The call only appended: every list the caller passed is a prefix of the
\* list it got back.
OnlyAppends ==
    \A key \in DOMAIN pending.env :
        /\ key \in DOMAIN returned.env
        /\ Len(returned.env[key]) >= Len(pending.env[key])
        /\ SubSeq(returned.env[key], 1, Len(pending.env[key])) = pending.env[key]

\* C9: update_environment_from_library leaves the environment unchanged for
\* a name of no known family and for a boost name under a toolset other than
\* 'mingw'; an 'openssl_' name adds the include and lib roots, 'openssl_ssl'
\* adds exactly one link library and 'openssl_crypto' exactly two.
C9_LibraryContributions ==
    UpdateDone =>
        LET lib == pending.library
            isOpenssl == startswith(lib, "openssl_")
            isBoost == startswith(lib, "boost")
        IN  /\ OnlyAppends
            /\ (~isOpenssl /\ ~isBoost) => returned.env = pending.env
            /\ (isBoost /\ toolset # "mingw") => returned.env = pending.env
            /\ isOpenssl =>
                  /\ Added("CPPPATH") = <<path_join(arguments["openssl_path"], "include")>>
                  /\ Added("LIBPATH") = <<path_join(arguments["openssl_path"], "lib")>>
                  /\ Added("CXXFLAGS") = <<>>
            /\ lib = "openssl_ssl" => Added("LIBS") = <<"ssl">>
            /\ lib = "openssl_crypto" => Added("LIBS") = <<"crypto", "gdi32">>
            /\ lib \notin {"openssl_ssl", "openssl_crypto"} => Added("LIBS") = <<>>

\* C9 witness: openssl_crypto was folded into an environment that already
\* had link libraries.
C9_Witness ==
    /\ UpdateDone
    /\ pending.library = "openssl_crypto"
    /\ "LIBS" \in DOMAIN pending.env
    /\ Len(returned.env["LIBS"]) = Len(pending.env["LIBS"]) + 2

\* The no-op case: an unknown name left the environment as it was.
C9_WitnessUnknown ==
    /\ UpdateDone
    /\ pending.library = "zlib"
    /\ returned.env = pending.env

BuildDone == stage = "done" /\ pending.name = "build_library"

\* The local environment of build_library before the merge.
LocalBeforeMerge ==
    update_from_libraries(toolset, arguments,
                          "CPPPATH" :> <<pending.include_path>>, pending.libraries)

NoDuplicates(flags) ==
    \A i, j \in DOMAIN flags : flags[i] = flags[j] => i = j

FirstIndex(flags, f) ==
    CHOOSE i \in DOMAIN flags :
        flags[i] = f /\ \A j \in 1..(i - 1) : flags[j] # f

\* merged holds each flag of all once, in the order of first occurrence.
FirstOccurrences(merged, all) ==
    /\ NoDuplicates(merged)
    /\ {merged[i] : i \in DOMAIN merged} = {all[i] : i \in DOMAIN all}
    /\ \A i, j \in DOMAIN merged :
          i < j => FirstIndex(all, merged[i]) < FirstIndex(all, merged[j])

\* The flags build_library hands to SharedLibrary are, per category, the
\* local flags followed by the helper's, first occurrences only; the
\* helper's own lists are as the constructor left them.
MergedFlags ==
    LET kwargs == returned.shared_library.kwargs
        local == LocalBeforeMerge
    IN  /\ DOMAIN kwargs = DOMAIN local
        /\ local["CPPPATH"][1] = pending.include_path
        /\ \A key \in DOMAIN kwargs :
              FirstOccurrences(kwargs[key],
                  IF key \in DOMAIN environment
                  THEN local[key] \o environment[key] ELSE local[key])
        /\ environment = EnvironmentHelper_init(toolset, target_arch, host_arch,
                                                base_environment, <<>>).environment

\* C10 as stated: build_library merges and deduplicates as described, and
\* merging a flag list with itself yields the original list.
C10_MergeWithItselfIsOriginal ==
    BuildDone =>
        /\ MergedFlags
        /\ \A key \in DOMAIN returned.shared_library.kwargs :
              (key \in DOMAIN environment /\ LocalBeforeMerge[key] = environment[key])
              => returned.shared_library.kwargs[key] = environment[key]

\* C10 amended: build_library merges and deduplicates as described; merging
\* a flag list with itself yields that list's first occurrences, which is
\* the original list when it holds no duplicate; the helper's own lists are
\* not modified.
C10_MergeDeduplicates ==
    BuildDone =>
        /\ MergedFlags
        /\ \A key \in DOMAIN returned.shared_library.kwargs :
              (key \in DOMAIN environment /\ LocalBeforeMerge[key] = environment[key])
              => /\ FirstOccurrences(returned.shared_library.kwargs[key], environment[key])
                 /\ NoDuplicates(environment[key])
                       => returned.shared_library.kwargs[key] = environment[key]

\* C10 witness: the local include paths were merged with equal ones of the
\* helper and came back unchanged.
C10_Witness ==
    /\ BuildDone
    /\ "CPPPATH" \in DOMAIN environment
    /\ LocalBeforeMerge["CPPPATH"] = environment["CPPPATH"]
    /\ NoDuplicates(environment["CPPPATH"])
    /\ Len(environment["CPPPATH"]) = 2
    /\ returned.shared_library.kwargs["CPPPATH"] = environment["CPPPATH"]

====
